---- MODULE Spec2Model ----
(***************************************************************************)
(* A model of the classification and recursive formatting engine of        *)
(* cxx-prettyprint: the string-building entry point ToString of            *)
(* printer.hpp, the stream inserter of prettyprint.hpp, and the            *)
(* print_container_helper functor each is built on.                        *)
(*                                                                         *)
(* A C++ type is a record [k, a]: k names the type constructor and a is    *)
(* the sequence of its type arguments.  A value is a record [t, n, s, c]:  *)
(* t its static type, n its number (scalars), s its bytes (text) and c     *)
(* its elements or components in traversal order (aggregates).  Text and   *)
(* output are sequences of one-character strings.                          *)
(***************************************************************************)
EXTENDS Integers, Sequences, FiniteSets

(***************************************************************************)
(* Bounds of the model.                                                    *)
(***************************************************************************)
MaxLen    == 3      \* longest top-level container of scalars or text
MaxOuter  == 2      \* longest container of aggregates, or nested container
MaxInt    == 130    \* top-level integers are -MaxInt..MaxInt
MaxStrLen == 2      \* longest top-level text

(***************************************************************************)
(* Types.                                                                  *)
(***************************************************************************)
Ty(k, a) == [k |-> k, a |-> a]

Int_t     == Ty("int", <<>>)
Bool_t    == Ty("bool", <<>>)
Char_t    == Ty("char", <<>>)
String_t  == Ty("string", <<>>)
Ptr(T)    == Ty("ptr", <<T>>)
Const(T)  == Ty("const", <<T>>)
Array(T)  == Ty("array", <<T>>)
CStr_t    == Ptr(Const(Char_t))
CharArr_t == Array(Char_t)
Vector(T) == Ty("vector", <<T>>)
List(T)   == Ty("list", <<T>>)
Deque(T)  == Ty("deque", <<T>>)
Set(T)    == Ty("set", <<T>>)
MultiSet(T) == Ty("multiset", <<T>>)
USet(T)   == Ty("unordered_set", <<T>>)
UMultiSet(T) == Ty("unordered_multiset", <<T>>)
ArrayWrapper(T) == Ty("array_wrapper_n", <<T>>)
ValArray(T) == Ty("valarray", <<T>>)
Pair(A, B)  == Ty("pair", <<A, B>>)
Map(K, V)   == Ty("map", <<K, V>>)
Tuple(as)   == Ty("tuple", as)

\* The class templates that declare a nested const_iterator and const
\* begin()/end() members returning it: those of the standard library and
\* the library's own array_wrapper_n.
StdRangeKinds ==
    {"string", "vector", "list", "deque", "set", "multiset",
     "unordered_set", "unordered_multiset", "map", "array_wrapper_n"}

\* Classes of a caller, one for each choice of the members the detection
\* probes: a nested type const_iterator, a member begin() const and a
\* member end() const. The member functions return C::const_iterator where
\* the class declares it and a pointer to the element otherwise.
ClassKinds ==
    {"class", "class+const_iterator", "class+begin", "class+end",
     "class+const_iterator+begin", "class+const_iterator+end",
     "class+begin+end", "class+const_iterator+begin+end"}

\* The classes that declare each member.
DeclaresConstIterator ==
    {"class+const_iterator", "class+const_iterator+begin",
     "class+const_iterator+end", "class+const_iterator+begin+end"}
DeclaresBegin ==
    {"class+begin", "class+const_iterator+begin", "class+begin+end",
     "class+const_iterator+begin+end"}
DeclaresEnd ==
    {"class+end", "class+const_iterator+end", "class+begin+end",
     "class+const_iterator+begin+end"}

\* A class of the caller holding ints.
Class(k) == Ty(k, <<Int_t>>)

\* detail::has_const_iterator<T>::value: test(typename C::const_iterator*)
\* is viable when the nested type exists.
has_const_iterator(T) ==
    T.k \in StdRangeKinds \/ T.k \in DeclaresConstIterator

\* detail::has_begin_end<T>::beg_value: f is viable when &C::begin casts to
\* typename C::const_iterator (C::*)() const, a type that exists only if
\* C::const_iterator does.
beg_value(T) ==
    \/ T.k \in StdRangeKinds
    \/ T.k \in DeclaresConstIterator /\ T.k \in DeclaresBegin

\* Faulty variant of end_value: g probes &C::begin as f does.
end_value_probes_begin(T) ==
    \/ T.k \in StdRangeKinds
    \/ T.k \in DeclaresConstIterator /\ T.k \in DeclaresBegin

\* detail::has_begin_end<T>::end_value: the same for &C::end.
end_value(T) ==
    \/ T.k \in StdRangeKinds
    \/ T.k \in DeclaresConstIterator /\ T.k \in DeclaresEnd

\* std::decay: an array decays to a pointer to its element, a top-level
\* const is dropped.
decay(T) ==
    IF T.k = "array" THEN Ptr(T.a[1])
    ELSE IF T.k = "const" THEN T.a[1]
    ELSE T

remove_pointer(T) == IF T.k = "ptr" THEN T.a[1] ELSE T

remove_const(T) == IF T.k = "const" THEN T.a[1] ELSE T

add_pointer(T) == Ptr(T)

\* is_string_like<T>::value
is_string_like(T) ==
    \/ T = String_t
    \/ add_pointer(remove_const(remove_pointer(decay(T)))) = Ptr(Char_t)

\* Faulty variant of is_container: the primary template without the
\* string-like exclusion.
is_container_no_text_guard(T) ==
    IF T.k = "array"
    THEN T.a[1] # Char_t
    ELSE IF T.k \in {"valarray", "pair", "tuple"}
    THEN TRUE
    ELSE has_const_iterator(T) /\ beg_value(T) /\ end_value(T)

\* is_container<T>::value: the primary template and its specialisations
\* for T[N], char[N], valarray, pair and tuple.
is_container(T) ==
    IF T.k = "array"
    THEN T.a[1] # Char_t
    ELSE IF T.k \in {"valarray", "pair", "tuple"}
    THEN TRUE
    ELSE /\ has_const_iterator(T)
         /\ beg_value(T)
         /\ end_value(T)
         /\ ~is_string_like(T)

\* Faulty variant of ViableOverloads: the scalar overload without its
\* second enable_if.
ViableOverloads_loose(T) ==
    {o \in {"container", "scalar", "text"} :
        \/ o = "container" /\ is_container(T) /\ ~is_string_like(T)
        \/ o = "scalar" /\ ~is_container(T)
        \/ o = "text" /\ ~is_container(T) /\ is_string_like(T)}

\* The overloads of ToStringHelper that survive enable_if for T.
ViableOverloads(T) ==
    {o \in {"container", "scalar", "text"} :
        \/ o = "container" /\ is_container(T) /\ ~is_string_like(T)
        \/ o = "scalar" /\ ~is_container(T) /\ ~is_string_like(T)
        \/ o = "text" /\ ~is_container(T) /\ is_string_like(T)}

(***************************************************************************)
(* The state of the program.                                               *)
(***************************************************************************)
VARIABLES
    arg,          \* the value the caller holds
    entry,        \* the entry point of the last call: none, ToString, helper,
                  \* stream, stream_helper, stream_helper98, custom_delims,
                  \* or the class of the wrapper object that was used
    tdelims,      \* the delimiters_type of the last call
    status,       \* idle, ok, ill_formed (the call does not compile), or
                  \* aborted (the program was killed)
    result,       \* the string the last call returned or streamed
    values,       \* the static members delimiters<T, char>::values of each
                  \* header, by <<header, T>>
    specialised,  \* the types the program specialises delimiters<T, char> for
    made,         \* the kinds of call made so far: default, custom, and
                  \* other once x has changed since a call
    threads,      \* by thread: its value x, its position pc, the frames of
                  \* its call of ToString and the string r it returned
    objs,         \* the wrapper objects the caller has built, in order of
                  \* construction
    heap          \* the custom_delims_wrapper objects allocated with new, in
                  \* order of allocation: how often each was deleted

vars == <<arg, entry, tdelims, status, result, values, specialised, made,
          threads, objs, heap>>

(***************************************************************************)
(* Delimiters.                                                             *)
(***************************************************************************)
\* A const char * field of delimiters_values: a string or NULL.
Lit(s) == [null |-> FALSE, s |-> s]
Null   == [null |-> TRUE, s |-> <<>>]

\* struct delimiters_values<char>
delimiters_values(p, d, q) == [prefix |-> p, delimiter |-> d, postfix |-> q]

\* Faulty variant of default_delimiters: no specialisation for the
\* multisets.
default_delimiters_no_multiset(T) ==
    IF T.k \in {"set", "unordered_set"}
    THEN delimiters_values(Lit(<<"{">>), Lit(<<",", " ">>), Lit(<<"}">>))
    ELSE IF T.k = "pair"
    THEN delimiters_values(Lit(<<>>), Lit(<<":", " ">>), Lit(<<>>))
    ELSE IF T.k = "tuple"
    THEN delimiters_values(Lit(<<"(">>), Lit(<<",", " ">>), Lit(<<")">>))
    ELSE delimiters_values(Lit(<<"[">>), Lit(<<",", " ">>), Lit(<<"]">>))

\* The definitions of delimiters<T, char>::values in printer.hpp: the
\* default and the specialisations for the sets, pair and tuple.
default_delimiters(T) ==
    IF T.k \in {"set", "multiset", "unordered_set", "unordered_multiset"}
    THEN delimiters_values(Lit(<<"{">>), Lit(<<",", " ">>), Lit(<<"}">>))
    ELSE IF T.k = "pair"
    THEN delimiters_values(Lit(<<>>), Lit(<<":", " ">>), Lit(<<>>))
    ELSE IF T.k = "tuple"
    THEN delimiters_values(Lit(<<"(">>), Lit(<<",", " ">>), Lit(<<")">>))
    ELSE delimiters_values(Lit(<<"[">>), Lit(<<",", " ">>), Lit(<<"]">>))

\* MyDelims::values of the demonstration program.
MyDelims == delimiters_values(Lit(<<"<">>), Lit(<<";", " ">>), Lit(<<">">>))

\* Delimiter classes a caller hands to print_container_helper<T, D>.
ParenDelims   == delimiters_values(Lit(<<"(">>), Lit(<<",", " ">>), Lit(<<")">>))
NullSepDelims == delimiters_values(Lit(<<"[">>), Null, Lit(<<"]">>))
NullEndDelims == delimiters_values(Null, Lit(<<",">>), Null)

DelimClasses == {MyDelims, ParenDelims, NullSepDelims, NullEndDelims}

\* The specialisation of the demonstration program,
\* delimiters<std::vector<...>, char>::values = { "|| ", " : ", " ||" }.
OverrideDelims ==
    delimiters_values(Lit(<<"|", "|", " ">>), Lit(<<" ", ":", " ">>),
                      Lit(<<" ", "|", "|">>))

\* delimiters<T, char>::values as a call of printer.hpp reads it.
delimiters(T) == values[<<"printer.hpp", T>>]

(***************************************************************************)
(* Conversions of the standard library used by the entry point.            *)
(***************************************************************************)
DigitChars == <<"0", "1", "2", "3", "4", "5", "6", "7", "8", "9">>

RECURSIVE Digits(_)
Digits(n) ==
    IF n < 10 THEN <<DigitChars[n + 1]>>
    ELSE Append(Digits(n \div 10), DigitChars[(n % 10) + 1])

\* Faulty variant of to_string: the sign is not written.
to_string_magnitude(v) == IF v.n < 0 THEN Digits(-v.n) ELSE Digits(v.n)

\* std::to_string(int); a bool argument is promoted to int first.
to_string(v) == IF v.n < 0 THEN <<"-">> \o Digits(-v.n) ELSE Digits(v.n)

\* The terminator of a C string.
NUL == "NUL"

RECURSIVE UntilNul(_)
UntilNul(b) ==
    IF b = <<>> \/ Head(b) = NUL THEN <<>>
    ELSE <<Head(b)>> \o UntilNul(Tail(b))

\* std::string(s): a copy of a std::string, or the characters of a char
\* pointer or (decayed) char array up to the terminator.
std_string(v) == IF v.t = String_t THEN v.s ELSE UntilNul(v.s)

(***************************************************************************)
(* The formatter of printer.hpp.                                           *)
(***************************************************************************)
RECURSIVE ToString(_), print_body_loop(_, _, _, _, _), tuple_print(_, _, _)
RECURSIVE print_container_helper(_, _)

\* Faulty variant of print_body_loop: an element that is a container is
\* printed under the delimiters of the enclosing call.
print_body_loop_inherit(c, D, i, r, is_first) ==
    IF i > Len(c) THEN r
    ELSE LET r1 == IF ~D.delimiter.null /\ ~is_first
                   THEN r \o D.delimiter.s
                   ELSE r
             e  == IF is_container(c[i].t)
                   THEN print_container_helper(c[i], D)
                   ELSE ToString(c[i])
         IN  print_body_loop(c, D, i + 1, r1 \o e, FALSE)

\* Faulty variant of print_body_loop: the delimiter follows every element.
print_body_loop_trailing(c, D, i, r, is_first) ==
    IF i > Len(c) THEN r
    ELSE print_body_loop(c, D, i + 1,
                         r \o ToString(c[i]) \o D.delimiter.s, FALSE)

\* print_container_helper<T, D>::printer<U>::print_body, the range-for
\* loop: c the elements, i the next position, r the string so far.
print_body_loop(c, D, i, r, is_first) ==
    IF i > Len(c) THEN r
    ELSE LET r1 == IF ~D.delimiter.null /\ ~is_first
                   THEN r \o D.delimiter.s
                   ELSE r
         IN  print_body_loop(c, D, i + 1, r1 \o ToString(c[i]), FALSE)

print_body(v, D) == print_body_loop(v.c, D, 1, <<>>, TRUE)

\* Faulty variant of pair_print_body: second before first.
pair_print_body_swapped(v, D) ==
    LET s1 == ToString(v.c[2])
        s2 == IF ~D.delimiter.null THEN s1 \o D.delimiter.s ELSE s1
    IN  s2 \o ToString(v.c[1])

\* Faulty variant of pair_print_body: the delimiter is never appended.
pair_print_body_unseparated(v, D) == ToString(v.c[1]) \o ToString(v.c[2])

\* printer<std::pair<T1, T2>>::print_body
pair_print_body(v, D) ==
    LET s1 == ToString(v.c[1])
        s2 == IF ~D.delimiter.null THEN s1 \o D.delimiter.s ELSE s1
    IN  s2 \o ToString(v.c[2])

\* printer<std::tuple<Args...>>::tuple_print(c, Int<sizeof...(Args)>)
tuple_print_end(v, D, I) == <<>>

\* printer<std::tuple<Args...>>::tuple_print(c, Int<0>), Args not empty
tuple_print_head(v, D, I) == ToString(v.c[1]) \o tuple_print(v, D, 1)

\* Faulty variant of tuple_print_N: the delimiter follows the component.
tuple_print_N_trailing(v, D, I) ==
    LET r == IF ~D.delimiter.null THEN D.delimiter.s ELSE <<>>
    IN  ToString(v.c[I + 1]) \o r \o tuple_print(v, D, I + 1)

\* printer<std::tuple<Args...>>::tuple_print<N>(c, Int<N>)
tuple_print_N(v, D, I) ==
    LET r == IF ~D.delimiter.null THEN D.delimiter.s ELSE <<>>
    IN  r \o ToString(v.c[I + 1]) \o tuple_print(v, D, I + 1)

\* Overload resolution of tuple_print(c, Int<I>()): the two non-template
\* overloads are preferred to the template.
tuple_print(v, D, I) ==
    IF I = Len(v.t.a) THEN tuple_print_end(v, D, I)
    ELSE IF I = 0 THEN tuple_print_head(v, D, I)
    ELSE tuple_print_N(v, D, I)

\* printer<std::tuple<Args...>>::print_body
tuple_print_body(v, D) == tuple_print(v, D, 0)

\* printer<T>::print_body: the pair and tuple specialisations, else the
\* generic loop.
printer_print_body(v, D) ==
    IF v.t.k = "pair" THEN pair_print_body(v, D)
    ELSE IF v.t.k = "tuple" THEN tuple_print_body(v, D)
    ELSE print_body(v, D)

\* Faulty variant of print_container_helper: returns early, before the
\* postfix, when the body is empty.
print_container_helper_unclosed(v, D) ==
    LET r0 == IF ~D.prefix.null THEN D.prefix.s ELSE <<>>
        b  == printer_print_body(v, D)
    IN  IF b = <<>> THEN r0
        ELSE IF ~D.postfix.null THEN r0 \o b \o D.postfix.s ELSE r0 \o b

\* Faulty variant of print_container_helper: a NULL prefix or postfix
\* falls back to the bracket of the primary template.
print_container_helper_null_fallback(v, D) ==
    LET r0 == IF ~D.prefix.null THEN D.prefix.s ELSE <<"[">>
        r1 == r0 \o printer_print_body(v, D)
    IN  IF ~D.postfix.null THEN r1 \o D.postfix.s ELSE r1 \o <<"]">>

\* print_container_helper<T, D>::operator()
print_container_helper(v, D) ==
    LET r0 == IF ~D.prefix.null THEN D.prefix.s ELSE <<>>
        r1 == r0 \o printer_print_body(v, D)
    IN  IF ~D.postfix.null THEN r1 \o D.postfix.s ELSE r1

\* ToStringHelper, is_container and not is_string_like
ToStringHelper_container(v) == print_container_helper(v, delimiters(v.t))

\* Faulty variant of ToStringHelper_scalar: the body of the text overload.
ToStringHelper_scalar_quoted(v) == <<"\"">> \o to_string(v) \o <<"\"">>

\* ToStringHelper, neither is_container nor is_string_like
ToStringHelper_scalar(v) == to_string(v)

RECURSIVE Escaped(_)
Escaped(b) ==
    IF b = <<>> THEN <<>>
    ELSE IF Head(b) \in {"\"", "\\"} THEN <<"\\", Head(b)>> \o Escaped(Tail(b))
    ELSE <<Head(b)>> \o Escaped(Tail(b))

\* Faulty variant of ToStringHelper_text: quotes and backslashes escaped.
ToStringHelper_text_escaped(v) ==
    <<"\"">> \o Escaped(std_string(v)) \o <<"\"">>

\* ToStringHelper, is_string_like and not is_container
ToStringHelper_text(v) == <<"\"">> \o std_string(v) \o <<"\"">>

\* ToString: the call ToStringHelper(container, nullptr, nullptr) resolved
\* among the viable overloads.
ToString(v) ==
    LET o == ViableOverloads(v.t)
    IN  IF o = {"container"} THEN ToStringHelper_container(v)
        ELSE IF o = {"scalar"} THEN ToStringHelper_scalar(v)
        ELSE ToStringHelper_text(v)

(***************************************************************************)
(* The stream inserter of prettyprint.hpp.                                 *)
(***************************************************************************)
\* is_container<T>::value of prettyprint.hpp: detection alone in the
\* primary template.
is_container_os(T) ==
    IF T.k = "array"
    THEN T.a[1] # Char_t
    ELSE IF T.k \in {"valarray", "pair", "tuple"}
    THEN TRUE
    ELSE has_const_iterator(T) /\ beg_value(T) /\ end_value(T)

\* The definitions of delimiters<T, char>::values in prettyprint.hpp.
default_delimiters_os(T) ==
    IF T.k \in {"set", "multiset", "unordered_set", "unordered_multiset"}
    THEN delimiters_values(Lit(<<"{">>), Lit(<<",", " ">>), Lit(<<"}">>))
    ELSE IF T.k \in {"pair", "tuple"}
    THEN delimiters_values(Lit(<<"(">>), Lit(<<",", " ">>), Lit(<<")">>))
    ELSE delimiters_values(Lit(<<"[">>), Lit(<<",", " ">>), Lit(<<"]">>))

\* delimiters<T, char>::values as a call of prettyprint.hpp reads it.
delimiters_os(T) == values[<<"prettyprint.hpp", T>>]

\* The inserters of the standard library: a number in decimal (a bool as 1
\* or 0), a char as itself, a std::string whole, a char pointer or decayed
\* char array up to its terminator.
std_inserter(v) ==
    IF v.t.k \in {"int", "bool"} THEN to_string(v)
    ELSE IF v.t = Char_t THEN v.s
    ELSE std_string(v)

\* stream << x selects the inserter of the library for an is_container type;
\* for std::string the inserter of the standard library is more specialised.
UsesLibraryInserter(T) == is_container_os(T) /\ T # String_t

RECURSIVE operator_shl(_), print_body_os_loop(_, _, _, _), tuple_print_os(_, _, _)

\* printer<U>::print_body of prettyprint.hpp, the for (;;) loop entered when
\* begin != end: c the elements, i the position of it, r the stream.
print_body_os_loop(c, D, i, r) ==
    LET r1 == r \o operator_shl(c[i])
    IN  IF i + 1 > Len(c) THEN r1
        ELSE print_body_os_loop(c, D, i + 1,
                 IF ~D.delimiter.null THEN r1 \o D.delimiter.s ELSE r1)

print_body_os(v, D) ==
    IF Len(v.c) # 0 THEN print_body_os_loop(v.c, D, 1, <<>>) ELSE <<>>

\* printer<std::pair<T1, T2>>::print_body of prettyprint.hpp
pair_print_body_os(v, D) ==
    LET s1 == operator_shl(v.c[1])
        s2 == IF ~D.delimiter.null THEN s1 \o D.delimiter.s ELSE s1
    IN  s2 \o operator_shl(v.c[2])

\* Faulty variant of tuple_print_os: a component that is a pair is printed
\* under the delimiter class of the enclosing call.
tuple_print_os_inherit(v, D, I) ==
    LET comp(c) == IF c.t.k = "pair"
                   THEN (IF ~D.prefix.null THEN D.prefix.s ELSE <<>>)
                            \o pair_print_body_os(c, D)
                            \o (IF ~D.postfix.null THEN D.postfix.s ELSE <<>>)
                   ELSE operator_shl(c)
    IN  IF I = Len(v.t.a) THEN <<>>
        ELSE IF I = 0 THEN comp(v.c[1]) \o tuple_print_os(v, D, 1)
        ELSE (IF ~D.delimiter.null THEN D.delimiter.s ELSE <<>>)
                 \o comp(v.c[I + 1]) \o tuple_print_os(v, D, I + 1)

\* printer<std::tuple<Args...>>::tuple_print of prettyprint.hpp: the
\* overloads for Int<sizeof...(Args)>, Int<0> and Int<N>.
tuple_print_os(v, D, I) ==
    IF I = Len(v.t.a) THEN <<>>
    ELSE IF I = 0 THEN operator_shl(v.c[1]) \o tuple_print_os(v, D, 1)
    ELSE (IF ~D.delimiter.null THEN D.delimiter.s ELSE <<>>)
             \o operator_shl(v.c[I + 1]) \o tuple_print_os(v, D, I + 1)

\* print_container_helper::operator()(stream) of prettyprint.hpp
print_container_helper_os(v, D) ==
    LET r0 == IF ~D.prefix.null THEN D.prefix.s ELSE <<>>
        b  == IF v.t.k = "pair" THEN pair_print_body_os(v, D)
              ELSE IF v.t.k = "tuple" THEN tuple_print_os(v, D, 0)
              ELSE print_body_os(v, D)
        r1 == r0 \o b
    IN  IF ~D.postfix.null THEN r1 \o D.postfix.s ELSE r1

\* Faulty variant of operator_shl: the helper is built on the delimiters
\* of the primary template whatever the type.
operator_shl_primary_row(v) ==
    IF UsesLibraryInserter(v.t)
    THEN print_container_helper_os(v, default_delimiters_os(Vector(Int_t)))
    ELSE std_inserter(v)

\* stream << x: what is appended to the stream.
operator_shl(v) ==
    IF UsesLibraryInserter(v.t)
    THEN print_container_helper_os(v, delimiters_os(v.t))
    ELSE std_inserter(v)

\* custom_delims_wrapper<T, Delims>::stream: streams the helper built on
\* the reference t it holds.
custom_delims_wrapper_stream(t, Delims) == print_container_helper_os(t, Delims)

\* stream << custom_delims<Delims>(x): p.base->stream(s)
operator_shl_custom_delims(x, Delims) == custom_delims_wrapper_stream(x, Delims)

(***************************************************************************)
(* The stream inserter of prettyprint98.hpp.                               *)
(***************************************************************************)
\* is_container<T>::value of prettyprint98.hpp: detection in the primary
\* template, specialisations for T[N] and char[N] only.
is_container_98(T) ==
    IF T.k = "array"
    THEN T.a[1] # Char_t
    ELSE has_const_iterator(T) /\ beg_value(T) /\ end_value(T)

\* The definitions of delimiters<T, char>::values in prettyprint98.hpp.
default_delimiters_98(T) ==
    IF T.k \in {"set", "multiset", "unordered_set", "unordered_multiset"}
    THEN delimiters_values(Lit(<<"{">>), Lit(<<",", " ">>), Lit(<<"}">>))
    ELSE IF T.k = "pair"
    THEN delimiters_values(Lit(<<"(">>), Lit(<<",", " ">>), Lit(<<")">>))
    ELSE delimiters_values(Lit(<<"[">>), Lit(<<",", " ">>), Lit(<<"]">>))

\* delimiters<T, char>::values as a call of prettyprint98.hpp reads it.
delimiters_98(T) == values[<<"prettyprint98.hpp", T>>]

RECURSIVE operator_shl_98(_), print_container_helper_98_loop(_, _, _, _)

\* Faulty variant of print_container_helper_98_loop: the delimiter is
\* written before the end of the range is tested.
print_container_helper_98_loop_late_test(c, D, i, r) ==
    LET r1 == r \o operator_shl_98(c[i])
        r2 == IF ~D.delimiter.null THEN r1 \o D.delimiter.s ELSE r1
    IN  IF i + 1 > Len(c) THEN r2
        ELSE print_container_helper_98_loop(c, D, i + 1, r2)

\* The for (;;) loop of print_container_helper::operator() of
\* prettyprint98.hpp, entered when begin != end: stream << *it; break if
\* ++it == it_end; else the delimiter unless it is NULL.
print_container_helper_98_loop(c, D, i, r) ==
    LET r1 == r \o operator_shl_98(c[i])
    IN  IF i + 1 > Len(c) THEN r1
        ELSE print_container_helper_98_loop(c, D, i + 1,
                 IF ~D.delimiter.null THEN r1 \o D.delimiter.s ELSE r1)

\* print_container_helper::operator()(stream) of prettyprint98.hpp
print_container_helper_98(v, D) ==
    LET r0 == IF ~D.prefix.null THEN D.prefix.s ELSE <<>>
        r1 == IF v.c # <<>>
              THEN print_container_helper_98_loop(v.c, D, 1, r0)
              ELSE r0
    IN  IF ~D.postfix.null THEN r1 \o D.postfix.s ELSE r1

\* std::operator<<(stream, const pair<T1, T2> &) of prettyprint98.hpp
operator_shl_98_pair(v) ==
    LET D  == delimiters_98(v.t)
        r0 == IF ~D.prefix.null THEN D.prefix.s ELSE <<>>
        r1 == r0 \o operator_shl_98(v.c[1])
        r2 == IF ~D.delimiter.null THEN r1 \o D.delimiter.s ELSE r1
        r3 == r2 \o operator_shl_98(v.c[2])
    IN  IF ~D.postfix.null THEN r3 \o D.postfix.s ELSE r3

\* The inserter of prettyprint98.hpp is selected for an is_container type
\* other than std::string.
UsesLibraryInserter_98(T) == is_container_98(T) /\ T # String_t

\* stream << x under prettyprint98.hpp
operator_shl_98(v) ==
    IF UsesLibraryInserter_98(v.t)
    THEN print_container_helper_98(v, delimiters_98(v.t))
    ELSE IF v.t.k = "pair" THEN operator_shl_98_pair(v)
    ELSE std_inserter(v)

(***************************************************************************)
(* Which instantiations of ToString compile.                               *)
(***************************************************************************)
\* The static types ToString is instantiated with for the elements or
\* components of an aggregate of type T (a map holds pair<const K, V>; a
\* component bound to const T & loses its top-level const).
ElementTypes(T) ==
    IF T.k = "map" THEN {Pair(Const(T.a[1]), T.a[2])}
    ELSE {remove_const(T.a[i]) : i \in 1..Len(T.a)}

RECURSIVE WellFormed(_)
\* ToString<T> is well-formed: one overload of ToStringHelper is viable and
\* its body compiles (std::to_string takes the arithmetic types,
\* std::string is constructible from a std::string or a char pointer).
WellFormed(T) ==
    LET o == ViableOverloads(T)
    IN  /\ Cardinality(o) = 1
        /\ IF o = {"container"} THEN \A E \in ElementTypes(T) : WellFormed(E)
           ELSE IF o = {"scalar"} THEN T.k \in {"int", "bool"}
           ELSE T = String_t \/ decay(T).k = "ptr"

RECURSIVE WellFormed_os(_)
\* stream << x is well-formed: the inserter of the library is viable and
\* its body compiles, or the standard library has an inserter for T (it has
\* none for a class of the caller).
WellFormed_os(T) ==
    IF UsesLibraryInserter(T)
    THEN \A E \in ElementTypes(T) : WellFormed_os(E)
    ELSE T.k \notin ClassKinds

(***************************************************************************)
(* Values handed to the entry point.                                       *)
(***************************************************************************)
Val(t, n, s, c) == [t |-> t, n |-> n, s |-> s, c |-> c]

SeqsUpTo(S, n) == UNION {[1..k -> S] : k \in 0..n}

Alphabet == {"a", "\"", "\\", ","}
TopStrs  == SeqsUpTo(Alphabet, MaxStrLen)
ElemStrs == {<<>>, <<"a", "b">>, <<"\"">>}
ElemInts == {-7, 42}
DeepStrs == {<<"a", "b">>}
DeepInts == {42}

\* The types of the example and demonstration programs.
Types ==
    {Int_t, Bool_t, Char_t, String_t, CStr_t, Ptr(Char_t), CharArr_t,
     Vector(Int_t), List(Int_t), Set(Int_t), MultiSet(Int_t), USet(Int_t),
     UMultiSet(Int_t), Array(Int_t), ValArray(Int_t), ArrayWrapper(Int_t),
     Vector(String_t), Vector(Vector(Int_t)), Vector(Vector(String_t)),
     Vector(Set(Int_t)), Deque(Pair(Int_t, Int_t)), Map(Int_t, String_t),
     Map(Int_t, Vector(String_t)),
     Pair(Int_t, CStr_t), Pair(String_t, Int_t),
     Tuple(<<>>), Tuple(<<Int_t>>), Tuple(<<Int_t, CStr_t, Int_t>>),
     Tuple(<<CStr_t, Pair(String_t, Int_t), Int_t>>)}
        \cup {Class(k) : k \in ClassKinds}

\* The longest container of elements of type E in the model: MaxLen for a
\* top-level container of scalars or text, MaxOuter for a container of
\* aggregates and for a container nested in another aggregate.
LenBound(E, top) == IF top /\ ~is_container(E) THEN MaxLen ELSE MaxOuter

\* The scalars and text of the model by nesting depth d: wide at top level,
\* a few as elements, one kind inside nested containers.
IntsAt(d) == IF d = 0 THEN (-MaxInt)..MaxInt ELSE IF d = 1 THEN ElemInts ELSE DeepInts
StrsAt(d) == IF d = 0 THEN TopStrs ELSE IF d = 1 THEN ElemStrs ELSE DeepStrs

RECURSIVE ValuesOf(_, _), Products(_, _)
\* The component sequences of a pair or tuple with component types as.
Products(as, d) ==
    IF as = <<>> THEN {<<>>}
    ELSE {<<h>> \o t : h \in ValuesOf(remove_const(Head(as)), d),
                       t \in Products(Tail(as), d)}

\* The values of type T at nesting depth d (0 the value handed to the entry
\* point; the components of a pair or tuple are as deep as an element).
\* Ordered containers hold their elements sorted, sets and maps without
\* duplicate keys; a raw array is not empty.
ValuesOf(T, d) ==
    IF T.k = "int"
    THEN {Val(T, n, <<>>, <<>>) : n \in IntsAt(d)}
    ELSE IF T.k = "bool" THEN {Val(T, n, <<>>, <<>>) : n \in {0, 1}}
    ELSE IF T.k = "char" THEN {Val(T, 0, <<ch>>, <<>>) : ch \in Alphabet}
    ELSE IF T = String_t
    THEN {Val(T, 0, s, <<>>) : s \in StrsAt(d)}
    ELSE IF is_string_like(T)
    THEN {Val(T, 0, s \o <<NUL>>, <<>>) : s \in StrsAt(d)}
    ELSE IF T.k \in {"pair", "tuple"}
    THEN {Val(T, 0, <<>>, c) : c \in Products(T.a, IF d = 0 THEN 1 ELSE d)}
    ELSE IF T.k \in ClassKinds /\ ~(T.k \in DeclaresBegin /\ T.k \in DeclaresEnd)
    THEN {Val(T, 0, <<>>, <<>>)}
    ELSE IF T.k = "map"
    THEN LET E == Pair(Const(T.a[1]), T.a[2])
         IN  {Val(T, 0, <<>>, c) :
                 c \in {q \in SeqsUpTo(ValuesOf(E, d + 1), LenBound(E, d = 0)) :
                          \A i \in 1..(Len(q) - 1) :
                              q[i].c[1].n < q[i + 1].c[1].n}}
    ELSE LET E == T.a[1]
             all == SeqsUpTo(ValuesOf(E, d + 1), LenBound(E, d = 0))
         IN  {Val(T, 0, <<>>, c) :
                 c \in {q \in all :
                          /\ T.k = "array" => Len(q) >= 1
                          /\ T.k = "set" =>
                               \A i \in 1..(Len(q) - 1) : q[i].n < q[i + 1].n
                          /\ T.k = "multiset" =>
                               \A i \in 1..(Len(q) - 1) : q[i].n <= q[i + 1].n
                          /\ T.k = "unordered_set" =>
                               \A i, j \in 1..Len(q) : q[i] = q[j] => i = j}}

Values == UNION {ValuesOf(T, 0) : T \in Types}

(***************************************************************************)
(* The program: a caller holds a value, may grow it, and formats it, one   *)
(* full expression at a time.                                              *)
(***************************************************************************)
\* Every type a value of the model has, or holds at some depth.
RECURSIVE TypesWithin(_)
TypesWithin(T) ==
    {T} \cup (IF is_container_os(T)
              THEN UNION {TypesWithin(E) : E \in ElementTypes(T)}
              ELSE {})

AllTypes == UNION {TypesWithin(T) : T \in Types}

Headers == {"printer.hpp", "prettyprint.hpp", "prettyprint98.hpp"}

\* The type the demonstration program specialises delimiters<T, char> for.
Specialisable == {Vector(Int_t)}

\* Faulty variant of StaticInit: the specialisation is partial, for every
\* instance of the class template of a type in sp.
StaticInit_partial(sp) ==
    [k \in Headers \X AllTypes |->
        IF k[2].k \in {T.k : T \in sp} THEN OverrideDelims
        ELSE IF k[1] = "printer.hpp" THEN default_delimiters(k[2])
        ELSE IF k[1] = "prettyprint.hpp" THEN default_delimiters_os(k[2])
        ELSE default_delimiters_98(k[2])]

\* The static members delimiters<T, char>::values after static
\* initialisation, in a program that specialises the template for sp.
StaticInit(sp) ==
    [k \in Headers \X AllTypes |->
        IF k[2] \in sp THEN OverrideDelims
        ELSE IF k[1] = "printer.hpp" THEN default_delimiters(k[2])
        ELSE IF k[1] = "prettyprint.hpp" THEN default_delimiters_os(k[2])
        ELSE default_delimiters_98(k[2])]

\* A sequence container starts empty and is filled by push_back; every
\* other value is built by its constructor.
Init ==
    /\ arg \in {v \in Values :
                  v.t.k \in {"vector", "list", "deque"} => v.c = <<>>}
    /\ specialised \in SUBSET Specialisable
    /\ values = StaticInit(specialised)
    /\ entry = "none"
    /\ tdelims = delimiters(arg.t)
    /\ status = "idle"
    /\ result = <<>>
    /\ made = {}
    /\ threads = <<>>
    /\ objs = <<>>
    /\ heap = <<>>

\* Faulty variant of CallToString: is_first is a static flag left cleared
\* by an earlier call, so the body of an Iterable opens with the delimiter.
CallToString_static_flag ==
    /\ entry = "none"
    /\ entry' = "ToString"
    /\ tdelims' = delimiters(arg.t)
    /\ IF WellFormed(arg.t)
       THEN /\ status' = "ok"
            /\ result' =
                 LET r == ToString(arg)
                     D == delimiters(arg.t)
                 IN  IF /\ made # {}
                        /\ is_container(arg.t)
                        /\ arg.t.k \notin {"pair", "tuple"}
                        /\ arg.c # <<>>
                     THEN D.prefix.s \o D.delimiter.s
                            \o SubSeq(r, Len(D.prefix.s) + 1, Len(r))
                     ELSE r
       ELSE status' = "ill_formed" /\ result' = <<>>
    /\ made' = made \cup {"default"}
    /\ UNCHANGED <<arg, values, specialised, threads, objs, heap>>

\* std::string r = ToString(x);
CallToString ==
    /\ entry = "none"
    /\ entry' = "ToString"
    /\ tdelims' = delimiters(arg.t)
    /\ IF WellFormed(arg.t)
       THEN status' = "ok" /\ result' = ToString(arg)
       ELSE status' = "ill_formed" /\ result' = <<>>
    /\ made' = made \cup {"default"}
    /\ UNCHANGED <<arg, values, specialised, threads, objs, heap>>

\* Faulty variant of CallHelper: the body is built by taking the elements
\* out of x, which is left empty.
CallHelper_consuming(D) ==
    /\ entry = "none"
    /\ is_container(arg.t)
    /\ WellFormed(arg.t)
    /\ entry' = "helper"
    /\ tdelims' = D
    /\ status' = "ok"
    /\ result' = print_container_helper(arg, D)
    /\ made' = made \cup {"custom"}
    /\ arg' = IF arg.t.k \in {"vector", "list", "deque"}
              THEN [arg EXCEPT !.c = <<>>] ELSE arg
    /\ UNCHANGED <<values, specialised, threads, objs, heap>>

\* std::string r = print_container_helper<T, D>(x)();
CallHelper(D) ==
    /\ entry = "none"
    /\ is_container(arg.t)
    /\ WellFormed(arg.t)
    /\ entry' = "helper"
    /\ tdelims' = D
    /\ status' = "ok"
    /\ result' = print_container_helper(arg, D)
    /\ made' = made \cup {"custom"}
    /\ UNCHANGED <<arg, values, specialised, threads, objs, heap>>

\* The elements a caller may append to x: those of its value_type, while
\* x is a sequence container shorter than the bound.
Pushable(x) ==
    IF x.t.k \in {"vector", "list", "deque"} /\ Len(x.c) < LenBound(x.t.a[1], TRUE)
    THEN ValuesOf(x.t.a[1], 1)
    ELSE {}

\* x.push_back(e) on a sequence container
push_back(e) ==
    /\ entry = "none"
    /\ arg' = [arg EXCEPT !.c = Append(@, e)]
    /\ entry' = "none"
    /\ tdelims' = delimiters(arg.t)
    /\ status' = "idle"
    /\ result' = <<>>
    /\ made' = IF made = {} THEN made ELSE made \cup {"other"}
    /\ UNCHANGED <<values, specialised, threads, objs, heap>>

\* std::cout << x;
CallStream ==
    /\ entry = "none"
    /\ entry' = "stream"
    /\ tdelims' = delimiters_os(arg.t)
    /\ IF WellFormed_os(arg.t)
       THEN status' = "ok" /\ result' = operator_shl(arg)
       ELSE status' = "ill_formed" /\ result' = <<>>
    /\ made' = made \cup {"default"}
    /\ UNCHANGED <<arg, values, specialised, threads, objs, heap>>

\* std::cout << print_container_helper<T, char, traits, D>(x);
CallStreamHelper(D) ==
    /\ entry = "none"
    /\ UsesLibraryInserter(arg.t)
    /\ entry' = "stream_helper"
    /\ tdelims' = D
    /\ status' = "ok"
    /\ result' = print_container_helper_os(arg, D)
    /\ made' = made \cup {"custom"}
    /\ UNCHANGED <<arg, values, specialised, threads, objs, heap>>

\* std::cout << print_container_helper<T, char, traits, D>(x); in a
\* program that includes prettyprint98.hpp: T has begin() and end().
CallStreamHelper98(D) ==
    /\ entry = "none"
    /\ UsesLibraryInserter_98(arg.t)
    /\ entry' = "stream_helper98"
    /\ tdelims' = D
    /\ status' = "ok"
    /\ result' = print_container_helper_98(arg, D)
    /\ made' = made \cup {"custom"}
    /\ UNCHANGED <<arg, values, specialised, threads, objs, heap>>

\* Faulty variant of CallCustomDelims: the class is installed as the
\* delimiters of the type of x.
CallCustomDelims_installs(D) ==
    /\ entry = "none"
    /\ UsesLibraryInserter(arg.t)
    /\ entry' = "custom_delims"
    /\ tdelims' = D
    /\ status' = "ok"
    /\ result' = operator_shl_custom_delims(arg, D)
    /\ made' = made \cup {"custom"}
    /\ values' = [values EXCEPT ![<<"prettyprint.hpp", arg.t>>] = D]
    /\ UNCHANGED <<arg, specialised, threads, objs, heap>>

\* std::cout << custom_delims<D>(x);
CallCustomDelims(D) ==
    /\ entry = "none"
    /\ UsesLibraryInserter(arg.t)
    /\ entry' = "custom_delims"
    /\ tdelims' = D
    /\ status' = "ok"
    /\ result' = operator_shl_custom_delims(arg, D)
    /\ made' = made \cup {"custom"}
    /\ UNCHANGED <<arg, values, specialised, threads, objs, heap>>

\* The end of the full expression: the returned temporary is destroyed.
Discard ==
    /\ entry # "none"
    /\ entry' = "none"
    /\ tdelims' = delimiters(arg.t)
    /\ status' = "idle"
    /\ result' = <<>>
    /\ UNCHANGED <<arg, values, specialised, made, threads, objs, heap>>

\* The delimiter classes a call names: those of the demonstration program
\* and the class that is the default template argument.
HelperClasses(x) == DelimClasses \cup {delimiters(x.t)}
StreamClasses(x) == DelimClasses \cup {delimiters_os(x.t)}

Classes98(x)     == DelimClasses \cup {delimiters_98(x.t)}

Next ==
    \/ Discard
    \/ CallToString
    \/ \E D \in HelperClasses(arg) : CallHelper(D)
    \/ CallStream
    \/ \E D \in StreamClasses(arg) : CallStreamHelper(D)
    \/ \E D \in StreamClasses(arg) : CallCustomDelims(D)
    \/ \E D \in Classes98(arg) : CallStreamHelper98(D)
    \/ \E e \in Pushable(arg) : push_back(e)

Spec == Init /\ [][Next]_vars

(***************************************************************************)
(* Threads: each formats a value of its own with ToString, the call        *)
(* unfolded into its steps.  The locals of an activation of                *)
(* print_container_helper::operator() and print_body are a frame:          *)
(* v the container, i the elements already appended, r the string so far,  *)
(* is_first the flag of the loop.                                          *)
(***************************************************************************)
NThreads == 2
Threads == 1..NThreads

\* The values the threads format: a nested vector holding an empty one,
\* the 0-tuple, a set, a tuple holding a pair.
ThreadValues ==
    {v \in Values :
        \/ /\ v.t = Vector(Vector(String_t))
           /\ Len(v.c) = 2 /\ Len(v.c[1].c) = 1 /\ Len(v.c[2].c) = 0
        \/ v.t = Tuple(<<>>)
        \/ v.t = Set(Int_t) /\ Len(v.c) = 2
        \/ /\ v.t = Tuple(<<CStr_t, Pair(String_t, Int_t), Int_t>>)
           /\ v.c[1].s = <<"a", "b", NUL>>
           /\ v.c[2].c[1].s = <<>> /\ v.c[2].c[2].n = 42
           /\ v.c[3].n = -7}

\* The frame of print_container_helper<T>(v)(): r holds the prefix.
NewFrame(v) ==
    [v |-> v, i |-> 0,
     r |-> IF ~delimiters(v.t).prefix.null THEN delimiters(v.t).prefix.s ELSE <<>>,
     is_first |-> TRUE]

\* What print_body appends before the next element of frame f: the
\* delimiter unless it is NULL or, in the range-for loop, is_first is set;
\* for a pair before second, for a tuple before every component but the
\* first.
separator(f) ==
    LET D == delimiters(f.v.t)
    IN  IF D.delimiter.null THEN <<>>
        ELSE IF f.v.t.k \in {"pair", "tuple"}
        THEN (IF f.i >= 1 THEN D.delimiter.s ELSE <<>>)
        ELSE (IF ~f.is_first THEN D.delimiter.s ELSE <<>>)

Top(st) == st[Len(st)]

\* Thread t calls ToString(x): a scalar or text is converted at once, a
\* container enters print_container_helper::operator().
thread_ToString(t) ==
    /\ threads[t].pc = "ready"
    /\ threads' =
         IF ViableOverloads(threads[t].x.t) = {"container"}
         THEN [threads EXCEPT ![t].pc = "running",
                              ![t].stack = <<NewFrame(threads[t].x)>>]
         ELSE [threads EXCEPT ![t].pc = "done",
                              ![t].r = ToString(threads[t].x)]
    /\ UNCHANGED <<arg, entry, tdelims, status, result, values, specialised, made,
                 objs, heap>>

\* Faulty variant of thread_print_body_item: is_first is one static flag,
\* cleared for every thread once any thread has appended an element.
thread_print_body_item_static_flag(t) ==
    /\ threads[t].pc = "running"
    /\ LET st == threads[t].stack
           f  == Top(st)
           shared == \A u \in Threads :
                        threads[u].stack = <<>> \/ Top(threads[u].stack).is_first
       IN  /\ f.i < Len(f.v.c)
           /\ ViableOverloads(f.v.c[f.i + 1].t) # {"container"}
           /\ threads' = [threads EXCEPT ![t].stack[Len(st)] =
                  [f EXCEPT !.r = @ \o separator([f EXCEPT !.is_first = shared])
                                    \o ToString(f.v.c[f.i + 1]),
                            !.i = @ + 1,
                            !.is_first = FALSE]]
    /\ UNCHANGED <<arg, entry, tdelims, status, result, values, specialised, made,
                 objs, heap>>

\* One iteration of print_body whose element is a scalar or text: the
\* separator, then the text of the element.
thread_print_body_item(t) ==
    /\ threads[t].pc = "running"
    /\ LET st == threads[t].stack
           f  == Top(st)
       IN  /\ f.i < Len(f.v.c)
           /\ ViableOverloads(f.v.c[f.i + 1].t) # {"container"}
           /\ threads' = [threads EXCEPT ![t].stack[Len(st)] =
                  [f EXCEPT !.r = @ \o separator(f) \o ToString(f.v.c[f.i + 1]),
                            !.i = @ + 1,
                            !.is_first = FALSE]]
    /\ UNCHANGED <<arg, entry, tdelims, status, result, values, specialised, made,
                 objs, heap>>

\* One iteration of print_body whose element is a container: the
\* separator, then the nested call of ToString enters its own frame.
thread_print_body_descend(t) ==
    /\ threads[t].pc = "running"
    /\ LET st == threads[t].stack
           f  == Top(st)
       IN  /\ f.i < Len(f.v.c)
           /\ ViableOverloads(f.v.c[f.i + 1].t) = {"container"}
           /\ threads' = [threads EXCEPT ![t].stack =
                  Append([st EXCEPT ![Len(st)].r = @ \o separator(f)],
                         NewFrame(f.v.c[f.i + 1]))]
    /\ UNCHANGED <<arg, entry, tdelims, status, result, values, specialised, made,
                 objs, heap>>

\* Faulty variant of thread_return: the end of the body is detected only
\* after an element, so the call on an empty container never returns.
thread_return_after_element(t) ==
    /\ threads[t].pc = "running"
    /\ LET st == threads[t].stack
           f  == Top(st)
           D  == delimiters(f.v.t)
           rr == IF ~D.postfix.null THEN f.r \o D.postfix.s ELSE f.r
       IN  /\ f.i = Len(f.v.c)
           /\ f.i >= 1
           /\ threads' =
                IF Len(st) = 1
                THEN [threads EXCEPT ![t].pc = "done", ![t].r = rr,
                                     ![t].stack = <<>>]
                ELSE [threads EXCEPT ![t].stack =
                        [SubSeq(st, 1, Len(st) - 1) EXCEPT
                            ![Len(st) - 1].r = @ \o rr,
                            ![Len(st) - 1].i = @ + 1,
                            ![Len(st) - 1].is_first = FALSE]]
    /\ UNCHANGED <<arg, entry, tdelims, status, result, values, specialised, made,
                 objs, heap>>

\* Faulty variant of thread_return: the caller appends the returned string
\* but its loop does not advance, so it calls ToString on the same element
\* again.
thread_return_no_advance(t) ==
    /\ threads[t].pc = "running"
    /\ LET st == threads[t].stack
           f  == Top(st)
           D  == delimiters(f.v.t)
           rr == IF ~D.postfix.null THEN f.r \o D.postfix.s ELSE f.r
       IN  /\ f.i = Len(f.v.c)
           /\ threads' =
                IF Len(st) = 1
                THEN [threads EXCEPT ![t].pc = "done", ![t].r = rr,
                                     ![t].stack = <<>>]
                ELSE [threads EXCEPT ![t].stack =
                        [SubSeq(st, 1, Len(st) - 1) EXCEPT
                            ![Len(st) - 1].r = @ \o rr]]
    /\ UNCHANGED <<arg, entry, tdelims, status, result, values, specialised, made,
                 objs, heap>>

\* The body is complete: operator() appends the postfix and returns; the
\* caller appends the returned string, or ToString returns it to the
\* thread.
thread_return(t) ==
    /\ threads[t].pc = "running"
    /\ LET st == threads[t].stack
           f  == Top(st)
           D  == delimiters(f.v.t)
           rr == IF ~D.postfix.null THEN f.r \o D.postfix.s ELSE f.r
       IN  /\ f.i = Len(f.v.c)
           /\ threads' =
                IF Len(st) = 1
                THEN [threads EXCEPT ![t].pc = "done", ![t].r = rr,
                                     ![t].stack = <<>>]
                ELSE [threads EXCEPT ![t].stack =
                        [SubSeq(st, 1, Len(st) - 1) EXCEPT
                            ![Len(st) - 1].r = @ \o rr,
                            ![Len(st) - 1].i = @ + 1,
                            ![Len(st) - 1].is_first = FALSE]]
    /\ UNCHANGED <<arg, entry, tdelims, status, result, values, specialised, made,
                 objs, heap>>

\* The threads are created, each holding its value; the main thread
\* formats nothing.
InitRun ==
    /\ threads \in [Threads -> {[x |-> v, pc |-> "ready", stack |-> <<>>, r |-> <<>>] :
                                   v \in ThreadValues}]
    /\ specialised = {}
    /\ values = StaticInit(specialised)
    /\ arg = Val(Tuple(<<>>), 0, <<>>, <<>>)
    /\ entry = "none"
    /\ tdelims = delimiters(arg.t)
    /\ status = "idle"
    /\ result = <<>>
    /\ made = {}
    /\ objs = <<>>
    /\ heap = <<>>

ThreadStep(t) ==
    \/ thread_ToString(t)
    \/ thread_print_body_item(t)
    \/ thread_print_body_descend(t)
    \/ thread_return(t)

NextRun ==
    \/ \E t \in Threads : thread_ToString(t)
    \/ \E t \in Threads : thread_print_body_item(t)
    \/ \E t \in Threads : thread_print_body_descend(t)
    \/ \E t \in Threads : thread_return(t)

\* Every thread that can take a step is eventually scheduled.
SpecRun ==
    InitRun /\ [][NextRun]_vars /\ \A t \in Threads : WF_vars(ThreadStep(t))

(***************************************************************************)
(* Wrapper objects: the caller builds print_container_helper, custom_delims *)
(* and array_wrapper_n objects on x as automatic variables, copies them,   *)
(* changes x, streams them and leaves their scope.                         *)
(***************************************************************************)
\* The wrapper objects alive at once, and the allocations of a run.
MaxObjs == 2

\* int arr[] = { 1, 4, 9, 16 }; of the demonstration program
arr == <<1, 4, 9, 16>>

ArrValue ==
    Val(Array(Int_t), 0, <<>>, [i \in 1..Len(arr) |-> Val(Int_t, arr[i], <<>>, <<>>)])

\* The wrappers of a sequence container: print_container_helper of
\* printer.hpp and of prettyprint.hpp, custom_delims of prettyprint.hpp
\* (std::unique_ptr base) and of prettyprint98.hpp (custom_delims_base * base).
RefKinds ==
    {"print_container_helper", "print_container_helper_os",
     "custom_delims11", "custom_delims98"}

OwningKinds == {"custom_delims11", "custom_delims98"}

\* A wrapper object: its class and delimiter class, the wrapper it
\* allocated (base, 0 for none or null), for array_wrapper_n the position
\* _array points at and _n; n0 records the length x had when the object
\* was built.
Obj(kind, D, base, off, n) ==
    [kind |-> kind, D |-> D, base |-> base, off |-> off, n |-> n,
     n0 |-> Len(arg.c)]

\* Faulty variant of container_: the wrapper holds a copy of x made when it
\* was built.
container_copied(o) == [arg EXCEPT !.c = SubSeq(arg.c, 1, o.n0)]

\* const T & container_ (const T & t in custom_delims_wrapper): the
\* reference names the object of the caller.
container_(o) == arg

\* array_wrapper_n::begin(): _array, as a position in the array of the caller
array_wrapper_n_begin(o) == o.off

\* Faulty variant of array_wrapper_n_end: one past _array + _n.
array_wrapper_n_end_past(o) == o.off + o.n + 1

\* array_wrapper_n::end(): _array + _n
array_wrapper_n_end(o) == o.off + o.n

\* *it; past the end of the array the value read is indeterminate.
deref(it) ==
    IF it < Len(arg.c) THEN arg.c[it + 1]
    ELSE Val(Int_t, CHOOSE n \in {0, MaxInt} : TRUE, <<>>, <<>>)

\* The positions and elements a range-for loop over the wrapper visits:
\* from begin() while it != end().
RECURSIVE array_wrapper_n_visits(_, _)
array_wrapper_n_visits(it, end) ==
    IF it = end THEN <<>> ELSE <<it>> \o array_wrapper_n_visits(it + 1, end)

array_wrapper_n_range(o) ==
    LET its == array_wrapper_n_visits(array_wrapper_n_begin(o),
                                      array_wrapper_n_end(o))
    IN  Val(ArrayWrapper(Int_t), 0, <<>>, [k \in 1..Len(its) |-> deref(its[k])])

\* What using the wrapper appends or returns: the helpers and
\* custom_delims_wrapper::stream format the container the reference names;
\* ToString(pretty_print_array(p, n)) formats the range of the wrapper.
wrapper_stream(o) ==
    IF o.kind = "print_container_helper"
    THEN print_container_helper(container_(o), o.D)
    ELSE IF o.kind = "print_container_helper_os"
    THEN print_container_helper_os(container_(o), o.D)
    ELSE IF o.kind = "custom_delims11"
    THEN operator_shl_custom_delims(container_(o), o.D)
    ELSE IF o.kind = "custom_delims98"
    THEN print_container_helper_98(container_(o), o.D)
    ELSE ToString(array_wrapper_n_range(o))

InitWrap ==
    /\ arg \in {Val(Vector(Int_t), 0, <<>>, <<>>), ArrValue}
    /\ specialised = {}
    /\ values = StaticInit(specialised)
    /\ entry = "none"
    /\ tdelims = delimiters(arg.t)
    /\ status = "idle"
    /\ result = <<>>
    /\ made = {}
    /\ threads = <<>>
    /\ objs = <<>>
    /\ heap = <<>>

\* W w(x); or pretty_print_array(p, n) with p = arr + off: the constructor
\* binds the reference or stores pointer and length; that of custom_delims
\* allocates a custom_delims_wrapper. The scope holds wrappers of one class.
Construct(kind, D, off, n) ==
    /\ entry = "none"
    /\ Len(objs) < MaxObjs
    /\ \A i \in 1..Len(objs) : objs[i].kind = kind
    /\ IF kind = "array_wrapper_n"
       THEN arg.t.k = "array" /\ off + n <= Len(arg.c)
       ELSE arg.t.k = "vector" /\ off = 0 /\ n = 0
    /\ IF kind \in OwningKinds
       THEN /\ Len(heap) < MaxObjs
            /\ heap' = Append(heap, [deletes |-> 0])
            /\ objs' = Append(objs, Obj(kind, D, Len(heap) + 1, off, n))
       ELSE /\ heap' = heap
            /\ objs' = Append(objs, Obj(kind, D, 0, off, n))
    /\ UNCHANGED <<arg, entry, tdelims, status, result, values, specialised, made,
                   threads>>

\* W c(w); with the implicitly-defined copy constructor: every member is
\* copied, the pointer base of the custom_delims of prettyprint98.hpp
\* included (a pointer that is still valid: its value is read). The
\* custom_delims of prettyprint.hpp has no copy constructor.
Copy(i) ==
    /\ entry = "none"
    /\ i \in 1..Len(objs)
    /\ Len(objs) < MaxObjs
    /\ objs[i].kind # "custom_delims11"
    /\ objs[i].kind = "custom_delims98" => heap[objs[i].base].deletes = 0
    /\ objs' = Append(objs, [objs[i] EXCEPT !.n0 = Len(arg.c)])
    /\ UNCHANGED <<arg, entry, tdelims, status, result, values, specialised, made,
                   threads, heap>>

\* W c(std::move(w)); for the custom_delims of prettyprint.hpp: the
\* unique_ptr is moved and w.base is left null.
Move(i) ==
    /\ entry = "none"
    /\ i \in 1..Len(objs)
    /\ Len(objs) < MaxObjs
    /\ objs[i].kind = "custom_delims11"
    /\ objs' = Append([objs EXCEPT ![i].base = 0],
                      [objs[i] EXCEPT !.n0 = Len(arg.c)])
    /\ UNCHANGED <<arg, entry, tdelims, status, result, values, specialised, made,
                   threads, heap>>

\* The end of the scope of the youngest wrapper. ~custom_delims() of
\* prettyprint98.hpp is delete base; the unique_ptr of prettyprint.hpp
\* deletes what it holds if it holds something; the other classes own
\* nothing. Deleting an object already deleted is undefined: the program
\* goes on or is aborted.
Destroy ==
    /\ entry = "none"
    /\ objs # <<>>
    /\ LET o == objs[Len(objs)]
       IN  /\ objs' = SubSeq(objs, 1, Len(objs) - 1)
           /\ IF o.kind = "custom_delims98"
                 \/ (o.kind = "custom_delims11" /\ o.base # 0)
              THEN /\ heap' = [heap EXCEPT ![o.base].deletes = @ + 1]
                   /\ IF heap[o.base].deletes >= 1
                      THEN status' \in {status, "aborted"}
                      ELSE status' = status
              ELSE heap' = heap /\ status' = status
    /\ UNCHANGED <<arg, entry, tdelims, result, values, specialised, made, threads>>

\* std::cout << w; or w() or ToString(w) on a wrapper whose wrapped object
\* exists.
Stream(i) ==
    /\ entry = "none"
    /\ i \in 1..Len(objs)
    /\ objs[i].kind \in OwningKinds =>
          objs[i].base # 0 /\ heap[objs[i].base].deletes = 0
    /\ entry' = objs[i].kind
    /\ tdelims' = IF objs[i].kind = "array_wrapper_n"
                  THEN delimiters(ArrayWrapper(Int_t))
                  ELSE objs[i].D
    /\ status' = "ok"
    /\ result' = wrapper_stream(objs[i])
    /\ UNCHANGED <<arg, values, specialised, made, threads, objs, heap>>

\* The classes and windows the caller builds wrappers with.
WrapKinds == RefKinds \cup {"array_wrapper_n"}
WrapPushable(x) == {e \in Pushable(x) : e.n = 42}

\* The program has not been aborted.
Running == status # "aborted"

NextWrap ==
    \/ Running /\ Discard
    \/ \E e \in WrapPushable(arg) : Running /\ push_back(e)
    \/ \E kind \in WrapKinds, off, n \in 0..Len(arr) :
          Running /\ Construct(kind, MyDelims, off, n)
    \/ \E i \in 1..MaxObjs : Running /\ Copy(i)
    \/ \E i \in 1..MaxObjs : Running /\ Move(i)
    \/ Running /\ Destroy
    \/ \E i \in 1..MaxObjs : Running /\ Stream(i)

SpecWrap == InitWrap /\ [][NextWrap]_vars

(***************************************************************************)
(* Vocabulary of the properties.                                           *)
(***************************************************************************)
\* The Iterable category: an aggregate traversed from begin() to end().
IsIterable(T) == is_container(T) /\ T.k \notin {"pair", "tuple"}

\* The Text category.
TextTypes == {String_t, CStr_t, Ptr(Char_t), CharArr_t}

\* A delimiter set with its three fields present.
Present(D) == ~D.prefix.null /\ ~D.delimiter.null /\ ~D.postfix.null

\* A call of an entry point has returned.
Returned ==
    /\ status = "ok"
    /\ entry \in {"ToString", "helper", "stream", "stream_helper", "custom_delims"}

\* The text of x under the entry point of the last call.
Format(x) ==
    IF entry \in {"ToString", "helper"} THEN ToString(x) ELSE operator_shl(x)

\* The formatted texts of the elements of v, in traversal order.
ElementTexts(v) == [i \in 1..Len(v.c) |-> Format(v.c[i])]

RECURSIVE Joined(_, _)
\* texts[1] sep texts[2] sep ... texts[n]
Joined(texts, sep) ==
    IF texts = <<>> THEN <<>>
    ELSE IF Len(texts) = 1 THEN texts[1]
    ELSE texts[1] \o sep \o Joined(Tail(texts), sep)

RECURSIVE TotalLen(_)
TotalLen(texts) ==
    IF texts = <<>> THEN 0 ELSE Len(Head(texts)) + TotalLen(Tail(texts))

\* The characters of a text value, without the terminator of a C string.
RawContents(v) ==
    IF v.t = String_t THEN v.s ELSE SubSeq(v.s, 1, Len(v.s) - 1)

(***************************************************************************)
(* Properties.                                                             *)
(***************************************************************************)
\* C1: formatting a std::pair with the default delimiters yields
\* "(" format(first) ", " format(second) ")".
C1_PairDefaultParens ==
    (entry = "ToString" /\ status = "ok" /\ arg.t.k = "pair") =>
        result = <<"(">> \o ToString(arg.c[1]) \o <<",", " ">>
                     \o ToString(arg.c[2]) \o <<")">>

\* Auxiliary to C1: streamed with the inserter of prettyprint.hpp, whose
\* pair delimiters are ("(", ", ", ")"), a pair does have that shape.
PairParensUnderStream ==
    (entry = "stream" /\ arg.t.k = "pair") =>
        result = <<"(">> \o operator_shl(arg.c[1]) \o <<",", " ">>
                     \o operator_shl(arg.c[2]) \o <<")">>

\* C2: an Iterable with n >= 1 elements is rendered as the prefix, the
\* formatted elements in traversal order joined by n - 1 separators (none
\* before the first or after the last), and the suffix.
C2_IterableJoined ==
    (Returned /\ IsIterable(arg.t) /\ Len(arg.c) >= 1 /\ Present(tdelims)) =>
        LET texts == ElementTexts(arg)
        IN  /\ result = tdelims.prefix.s
                          \o Joined(texts, tdelims.delimiter.s)
                          \o tdelims.postfix.s
            /\ Len(result) = Len(tdelims.prefix.s) + TotalLen(texts)
                               + (Len(arg.c) - 1) * Len(tdelims.delimiter.s)
                               + Len(tdelims.postfix.s)

C2_Witness ==
    /\ entry = "ToString"
    /\ arg.t = Vector(Int_t)
    /\ Len(arg.c) = 3
    /\ result = <<"[", "4", "2", ",", " ", "-", "7", ",", " ",
                  "4", "2", "]">>

\* C3: an empty Iterable is rendered as exactly prefix suffix: under the
\* default delimiters [] for a list-like container, {} for a set-like one.
C3_EmptyIterable ==
    (Returned /\ IsIterable(arg.t) /\ arg.c = <<>>) =>
        /\ Present(tdelims) => result = tdelims.prefix.s \o tdelims.postfix.s
        /\ (entry \in {"ToString", "stream"} /\ arg.t \notin specialised) =>
             result = IF arg.t.k \in {"set", "multiset", "unordered_set",
                                      "unordered_multiset"}
                      THEN <<"{", "}">>
                      ELSE <<"[", "]">>

C3_Witness ==
    /\ entry = "ToString"
    /\ arg.t = Set(Int_t)
    /\ arg.c = <<>>
    /\ result = <<"{", "}">>

\* C4: a Text value is rendered as a double quote, its raw contents
\* unchanged (nothing escaped), and a double quote.
C4_TextQuotedRaw ==
    (entry = "ToString" /\ status = "ok" /\ arg.t \in TextTypes) =>
        result = <<"\"">> \o RawContents(arg) \o <<"\"">>

C4_Witness ==
    /\ entry = "ToString"
    /\ arg.t = CStr_t
    /\ arg.s = <<"\"", "\\", NUL>>
    /\ result = <<"\"", "\"", "\\", "\"">>

\* C5: std::string, char pointers and char arrays are classified as Text
\* and never as Iterable: the text overload alone is viable and the output
\* is one quoted string, not elements joined by separators.
C5_TextBeforeIterable ==
    (entry = "ToString" /\ arg.t \in TextTypes) =>
        /\ is_string_like(arg.t)
        /\ ~is_container(arg.t)
        /\ ViableOverloads(arg.t) = {"text"}
        /\ status = "ok"
        /\ Len(result) = Len(RawContents(arg)) + 2
        /\ result[1] = "\"" /\ result[Len(result)] = "\""

C5_Witness ==
    /\ entry = "ToString"
    /\ arg.t = String_t
    /\ arg.s = <<"a", ",">>
    /\ has_const_iterator(arg.t) /\ beg_value(arg.t) /\ end_value(arg.t)
    /\ result = <<"\"", "a", ",", "\"">>

\* C6: every type handed to ToString has exactly one viable overload of
\* ToStringHelper, and no type is both a container and string-like.
C6_ExactlyOneBranch ==
    entry = "ToString" =>
        /\ Cardinality(ViableOverloads(arg.t)) = 1
        /\ ~(is_container(arg.t) /\ is_string_like(arg.t))

C6_Witness ==
    /\ entry = "ToString"
    /\ arg.t = String_t
    /\ ViableOverloads(arg.t) = {"text"}
    /\ status = "ok"

\* C7: a char is classified as Scalar, not Text, and rendered by the
\* scalar rule without quotes.
C7_CharIsScalar ==
    (entry = "ToString" /\ arg.t = Char_t) =>
        /\ ~is_string_like(arg.t)
        /\ ViableOverloads(arg.t) = {"scalar"}
        /\ status = "ok"
        /\ \A i \in 1..Len(result) : result[i] # "\""

\* C8: a tuple of N components is rendered as the prefix, the formatted
\* components in declared order joined by N - 1 separators, and the suffix:
\* prefix suffix for N = 0, no separator for N = 1.
C8_TupleJoined ==
    (Returned /\ arg.t.k = "tuple" /\ Present(tdelims)) =>
        LET texts == ElementTexts(arg)
            N == Len(arg.t.a)
        IN  /\ Len(arg.c) = N
            /\ N = 0 => result = tdelims.prefix.s \o tdelims.postfix.s
            /\ N = 1 => result = tdelims.prefix.s \o texts[1]
                                     \o tdelims.postfix.s
            /\ result = tdelims.prefix.s
                          \o Joined(texts, tdelims.delimiter.s)
                          \o tdelims.postfix.s

C8_Witness ==
    /\ entry = "ToString"
    /\ arg.t = Tuple(<<Int_t, CStr_t, Int_t>>)
    /\ result = <<"(", "4", "2", ",", " ", "\"", "a", "b", "\"", ",", " ",
                  "-", "7", ")">>

\* C9: with any delimiter set a pair is rendered as prefix format(first)
\* separator format(second) suffix.
C9_PairAnyDelimiters ==
    (Returned /\ arg.t.k = "pair" /\ Present(tdelims)) =>
        result = tdelims.prefix.s \o Format(arg.c[1])
                   \o tdelims.delimiter.s \o Format(arg.c[2])
                   \o tdelims.postfix.s

C9_Witness ==
    /\ entry = "helper"
    /\ tdelims = MyDelims
    /\ arg.t = Pair(Int_t, CStr_t)
    /\ result = <<"<", "4", "2", ";", " ", "\"", "a", "b", "\"", ">">>

\* The characters the delimiters and the text rule add.
MarkChars == {"[", "]", "(", ")", "{", "}", ",", " ", ":", "\""}

DigitValue(ch) == CHOOSE d \in 0..9 : DigitChars[d + 1] = ch

RECURSIVE Horner(_, _)
Horner(ds, acc) ==
    IF ds = <<>> THEN acc
    ELSE Horner(Tail(ds), 10 * acc + DigitValue(Head(ds)))

\* text is the canonical decimal numeral of n.
IsDecimalOf(text, n) ==
    LET ds == IF n < 0 THEN Tail(text) ELSE text
    IN  /\ text # <<>>
        /\ n < 0 => Head(text) = "-"
        /\ ds # <<>>
        /\ \A i \in 1..Len(ds) : \E d \in 0..9 : ds[i] = DigitChars[d + 1]
        /\ Len(ds) > 1 => ds[1] # "0"
        /\ Horner(ds, 0) = (IF n < 0 THEN -n ELSE n)

\* C10: an integer or boolean is rendered as its canonical decimal text
\* (true as 1, false as 0), with no delimiter or quote character.
C10_ScalarCanonical ==
    (entry = "ToString" /\ status = "ok" /\ arg.t \in {Int_t, Bool_t}) =>
        /\ IsDecimalOf(result, arg.n)
        /\ \A i \in 1..Len(result) : result[i] \notin MarkChars

C10_Witness ==
    /\ entry = "ToString"
    /\ arg.t = Int_t
    /\ arg.n = -107
    /\ result = <<"-", "1", "0", "7">>

\* The delimiter table the program starts with, by the set of types it
\* specialises.
StartTable == [sp \in SUBSET Specialisable |-> StaticInit(sp)]

\* The three rows of the default delimiter table.
BraceRow   == delimiters_values(Lit(<<"{">>), Lit(<<",", " ">>), Lit(<<"}">>))
ParenRow   == delimiters_values(Lit(<<"(">>), Lit(<<",", " ">>), Lit(<<")">>))
BracketRow == delimiters_values(Lit(<<"[">>), Lit(<<",", " ">>), Lit(<<"]">>))

SetKinds == {"set", "multiset", "unordered_set", "unordered_multiset"}

\* A call through a default entry point has returned.
ReturnedDefault == Returned /\ entry \in {"ToString", "stream"}

\* C11: with no specialisation for its type, a default call formats a set,
\* multiset, unordered_set or unordered_multiset with { , }, a tuple with
\* ( , ), every other Iterable with [ , ]; the row is a function of the
\* type alone and the output opens and closes with it.
C11_DefaultTable ==
    (/\ ReturnedDefault
     /\ arg.t \notin specialised
     /\ IsIterable(arg.t) \/ arg.t.k = "tuple") =>
        LET row == IF arg.t.k \in SetKinds THEN BraceRow
                   ELSE IF arg.t.k = "tuple" THEN ParenRow
                   ELSE BracketRow
        IN  /\ tdelims = row
            /\ Len(result) >= 2
            /\ <<result[1]>> = row.prefix.s
            /\ <<result[Len(result)]>> = row.postfix.s

C11_Witness ==
    /\ entry = "ToString"
    /\ arg.t = UMultiSet(Int_t)
    /\ arg.c = <<Val(Int_t, 42, <<>>, <<>>), Val(Int_t, -7, <<>>, <<>>)>>
    /\ result = <<"{", "4", "2", ",", " ", "-", "7", "}">>

\* The row of the delimiter table the program is configured with for T:
\* the specialisation if the program declares one, else the default row of
\* the kind of T.
ConfiguredRow(T) ==
    IF T \in specialised THEN OverrideDelims
    ELSE IF T.k \in SetKinds THEN BraceRow
    ELSE BracketRow

\* An Iterable whose elements are Iterables.
IsNestedIterable(T) == IsIterable(T) /\ T.k # "map" /\ IsIterable(T.a[1])

\* x wrapped and joined under the row of its own type, its elements being
\* scalars or text.
OwnLevel(x) ==
    ConfiguredRow(x.t).prefix.s
        \o Joined(ElementTexts(x), ConfiguredRow(x.t).delimiter.s)
        \o ConfiguredRow(x.t).postfix.s

\* C12: a default call on an Iterable of Iterables wraps and joins every
\* inner collection with the prefix, separator and suffix of the inner
\* type, and the outer level with those of the outer type.
C12_NestedOwnDelimiters ==
    (ReturnedDefault /\ IsNestedIterable(arg.t)) =>
        result = ConfiguredRow(arg.t).prefix.s
                   \o Joined([i \in 1..Len(arg.c) |-> OwnLevel(arg.c[i])],
                             ConfiguredRow(arg.t).delimiter.s)
                   \o ConfiguredRow(arg.t).postfix.s

C12_Witness ==
    /\ entry = "ToString"
    /\ arg.t = Vector(Vector(String_t))
    /\ Len(arg.c) = 2
    /\ Len(arg.c[1].c) = 2
    /\ Len(arg.c[2].c) = 1
    /\ result = <<"[", "[", "\"", "a", "b", "\"", ",", " ", "\"", "a", "b", "\"", "]",
                  ",", " ", "[", "\"", "a", "b", "\"", "]", "]">>

\* The map-entry row: no prefix, ": " and no suffix.
MapEntryRow == delimiters_values(Lit(<<>>), Lit(<<":", " ">>), Lit(<<>>))

\* The row the last call read for the entries of the map type T.
EntryRowRead(T) ==
    IF entry = "ToString"
    THEN delimiters(Pair(Const(T.a[1]), T.a[2]))
    ELSE delimiters_os(Pair(Const(T.a[1]), T.a[2]))

\* The text of a map value: wrapped in the row of its own type if it is an
\* Iterable, else its scalar or text form.
MappedText(x) == IF IsIterable(x.t) THEN OwnLevel(x) ELSE Format(x)

\* C13: when the row of the pair type is ("", ": ", ""), a default call on
\* a map yields "[", its entries in increasing key order joined by ", ",
\* and "]"; an entry is the text of the key, ": " and the text of the
\* value, a value that is an Iterable keeping its own brackets.
C13_MapEntries ==
    (ReturnedDefault /\ arg.t.k = "map" /\ EntryRowRead(arg.t) = MapEntryRow) =>
        /\ \A i \in 1..(Len(arg.c) - 1) : arg.c[i].c[1].n < arg.c[i + 1].c[1].n
        /\ result = <<"[">>
                      \o Joined([i \in 1..Len(arg.c) |->
                                    Format(arg.c[i].c[1]) \o <<":", " ">>
                                        \o MappedText(arg.c[i].c[2])],
                                <<",", " ">>)
                      \o <<"]">>

C13_Witness ==
    /\ entry = "ToString"
    /\ arg.t = Map(Int_t, Vector(String_t))
    /\ Len(arg.c) = 2
    /\ result = <<"[", "-", "7", ":", " ", "[", "\"", "a", "b", "\"", "]", ",", " ",
                  "4", "2", ":", " ", "[", "]", "]">>

\* A delimiter field as text: nothing for NULL.
FieldText(f) == IF f.null THEN <<>> ELSE f.s

\* D with every NULL field replaced by the empty string.
NullsEmptied(D) ==
    delimiters_values(Lit(FieldText(D.prefix)), Lit(FieldText(D.delimiter)),
                      Lit(FieldText(D.postfix)))

\* The output of the entry point of the last call on x under D.
FormatUnder(x, D) ==
    IF entry = "helper" THEN print_container_helper(x, D)
    ELSE IF entry = "stream_helper" THEN print_container_helper_os(x, D)
    ELSE operator_shl_custom_delims(x, D)

\* A call naming its delimiter class has returned.
ReturnedCustom ==
    Returned /\ entry \in {"helper", "stream_helper", "custom_delims"}

\* C14: a call under a delimiter class with NULL fields returns, and its
\* output is the output under the same class with "" in place of every
\* NULL: the texts of the elements or components, joined by the separator
\* if there is one, between the prefix and the suffix if there are any.
C14_NullFieldOmitted ==
    (/\ entry \in {"helper", "stream_helper", "custom_delims"}
     /\ ~Present(tdelims)) =>
        /\ status = "ok"
        /\ result = FormatUnder(arg, NullsEmptied(tdelims))
        /\ result = FieldText(tdelims.prefix)
                      \o Joined(ElementTexts(arg), FieldText(tdelims.delimiter))
                      \o FieldText(tdelims.postfix)

C14_Witness ==
    /\ entry = "helper"
    /\ tdelims = NullEndDelims
    /\ arg.t = Tuple(<<Int_t, CStr_t, Int_t>>)
    /\ result = <<"4", "2", ",", "\"", "\"", ",", "-", "7">>

\* The output of the default entry point of the last call on x.
DefaultFormat(x) == IF entry = "ToString" THEN ToString(x) ELSE operator_shl(x)

\* C15: after any sequence of calls that includes calls under a one-off
\* delimiter class, the delimiters of every type are those the program
\* started with, the delimiters a default call uses are those of the type,
\* and its output is the default output of the value under them.
C15_CustomCallLocal ==
    (ReturnedDefault /\ "custom" \in made) =>
        /\ values = StartTable[specialised]
        /\ tdelims = StartTable[specialised][<<IF entry = "ToString"
                                               THEN "printer.hpp"
                                               ELSE "prettyprint.hpp", arg.t>>]
        /\ result = DefaultFormat(arg)

C15_Witness ==
    /\ entry = "stream"
    /\ made = {"custom", "default"}
    /\ specialised = {}
    /\ arg.t = Vector(String_t)
    /\ Len(arg.c) = 2
    /\ result = <<"[", "a", "b", ",", " ", "]">>

\* The header the entry point of the last call belongs to.
HeaderOfEntry ==
    IF entry \in {"ToString", "helper"} THEN "printer.hpp" ELSE "prettyprint.hpp"

\* The definition of delimiters<T, char>::values the header of the last
\* call gives when the program specialises nothing.
UnspecialisedRow(T) ==
    IF HeaderOfEntry = "printer.hpp" THEN default_delimiters(T)
    ELSE default_delimiters_os(T)

\* x wrapped and joined under the specialisation.
UnderOverride(x) ==
    OverrideDelims.prefix.s
        \o Joined(ElementTexts(x), OverrideDelims.delimiter.s)
        \o OverrideDelims.postfix.s

\* The characters of a string.
CharsOf(r) == {r[i] : i \in 1..Len(r)}

\* C16: in a program that specialises delimiters<T0, char>, a default call
\* formats a value of type T0 under the specialisation, at top level and as
\* an element of a vector<T0>, whose own brackets stay [ and ]; a value
\* whose type does not hold T0 is formatted under the unspecialised
\* delimiters of its type and no character of the specialisation appears.
C16_OverrideExactType ==
    (ReturnedDefault /\ specialised # {}) =>
        \A T0 \in specialised :
            /\ arg.t = T0 =>
                  tdelims = OverrideDelims /\ result = UnderOverride(arg)
            /\ arg.t = Vector(T0) =>
                  /\ tdelims = BracketRow
                  /\ result = <<"[">>
                       \o Joined([i \in 1..Len(arg.c) |-> UnderOverride(arg.c[i])],
                                 <<",", " ">>)
                       \o <<"]">>
            /\ T0 \notin TypesWithin(arg.t) =>
                  /\ tdelims = UnspecialisedRow(arg.t)
                  /\ \A T \in TypesWithin(arg.t) :
                         values[<<HeaderOfEntry, T>>] = UnspecialisedRow(T)
                  /\ "|" \notin CharsOf(result)

C16_Witness ==
    /\ entry = "stream"
    /\ specialised = {Vector(Int_t)}
    /\ arg.t = Vector(Vector(Int_t))
    /\ Len(arg.c) = 2
    /\ result = <<"[", "|", "|", " ", "4", "2", " ", "|", "|", ",", " ",
                  "|", "|", " ", "4", "2", " ", ":", " ", "4", "2", " ", "|", "|", "]">>

AllDone == \A t \in Threads : threads[t].pc = "done"

Openers == {"[", "{", "("}
Closer(ch) == IF ch = "[" THEN "]" ELSE IF ch = "{" THEN "}" ELSE ")"

RECURSIVE Closed(_, _, _)
\* From position i of r, with the prefixes in open awaiting their suffix:
\* every suffix closes the innermost open prefix and none stays open.
Closed(r, i, open) ==
    IF i > Len(r) THEN open = <<>>
    ELSE IF r[i] \in Openers THEN Closed(r, i + 1, Append(open, r[i]))
    ELSE IF r[i] \in {Closer(ch) : ch \in Openers}
    THEN /\ open # <<>>
         /\ r[i] = Closer(open[Len(open)])
         /\ Closed(r, i + 1, SubSeq(open, 1, Len(open) - 1))
    ELSE Closed(r, i + 1, open)

\* The prefixes a value opens when formatted: one for each container in it
\* that is not a pair.
RECURSIVE Brackets(_)
SumOver(f, n) ==
    LET RECURSIVE S(_)
        S(k) == IF k = 0 THEN 0 ELSE f[k] + S(k - 1)
    IN  S(n)
Brackets(v) ==
    IF ~is_container(v.t) THEN 0
    ELSE (IF v.t.k = "pair" THEN 0 ELSE 1)
           + SumOver([k \in 1..Len(v.c) |-> Brackets(v.c[k])], Len(v.c))

\* The number of characters of r in S.
CountIn(r, S) == Cardinality({i \in 1..Len(r) : r[i] \in S})

\* The string thread t holds is complete.
Complete(t) ==
    /\ threads[t].stack = <<>>
    /\ Closed(threads[t].r, 1, <<>>)
    /\ CountIn(threads[t].r, Openers) = Brackets(threads[t].x)
    /\ threads[t].r # <<>>

\* C18: every call of ToString, on the 0-tuple, on a vector holding an
\* empty vector and on the other nested values alike, eventually returns, and the string it returns
\* closes every prefix it opened, innermost first, one pair for each
\* bracketed container of the value.
C18_TerminatesComplete ==
    <>[](\A t \in Threads : threads[t].pc = "done" /\ Complete(t))

C18_Witness ==
    /\ AllDone
    /\ threads[1].x.t = Vector(Vector(String_t))
    /\ threads[1].r = <<"[", "[", "\"", "a", "b", "\"", "]", ",", " ", "[", "]", "]">>
    /\ threads[2].x.t = Tuple(<<>>)
    /\ threads[2].r = <<"(", ")">>

IsPrefix(p, r) == Len(p) <= Len(r) /\ SubSeq(r, 1, Len(p)) = p

\* C20: under every interleaving of the steps of the threads, the string
\* every activation has built is a prefix of what ToString returns for its
\* container alone, every activation works on the element its caller has
\* reached, every thread that has returned holds what ToString returns for
\* its value alone, and the static delimiters all threads read are as
\* static initialisation left them.
C20_ThreadsIndependent ==
    /\ values = StartTable[specialised]
    /\ \A t \in Threads :
          LET th == threads[t]
          IN  /\ th.pc = "done" => th.r = ToString(th.x)
              /\ th.pc = "running" =>
                    /\ th.stack # <<>>
                    /\ th.stack[1].v = th.x
                    /\ \A k \in 1..Len(th.stack) :
                          /\ IsPrefix(th.stack[k].r, ToString(th.stack[k].v))
                          /\ k > 1 =>
                                th.stack[k].v =
                                    th.stack[k - 1].v.c[th.stack[k - 1].i + 1]

C20_Witness ==
    /\ threads[1].pc = "running"
    /\ threads[2].pc = "running"
    /\ threads[1].x.t = Set(Int_t)
    /\ threads[2].x.t = Vector(Vector(String_t))
    /\ Top(threads[1].stack).i = 1
    /\ Len(threads[2].stack) = 2
    /\ Top(threads[2].stack).i = 1

RECURSIVE Rendering(_, _, _), Wrapping(_, _, _, _)
\* The text of x as a function of x, the header h and the delimiter table
\* tab alone: a scalar in decimal, text raw (between quotes under
\* printer.hpp), an aggregate wrapped under the row of its type.
Rendering(x, h, tab) ==
    IF h = "printer.hpp"
    THEN IF is_container(x.t) THEN Wrapping(x, h, tab[<<h, x.t>>], tab)
         ELSE IF x.t.k \in {"int", "bool"} THEN to_string(x)
         ELSE <<"\"">> \o RawContents(x) \o <<"\"">>
    ELSE IF UsesLibraryInserter(x.t) THEN Wrapping(x, h, tab[<<h, x.t>>], tab)
         ELSE std_inserter(x)

\* The elements or components of x rendered, joined and wrapped under D.
Wrapping(x, h, D, tab) ==
    FieldText(D.prefix)
        \o Joined([i \in 1..Len(x.c) |-> Rendering(x.c[i], h, tab)],
                  FieldText(D.delimiter))
        \o FieldText(D.postfix)

\* C19: whatever calls were made before, on this value or on an earlier
\* content of it, the string a call returns is a function of the value,
\* the entry point and the delimiter configuration (the class the call
\* names and the table the program started with) alone, and the table is
\* the one the program started with.
C19_Deterministic ==
    Returned =>
        /\ values = StartTable[specialised]
        /\ result = IF entry \in {"ToString", "stream"}
                    THEN Rendering(arg, HeaderOfEntry, StartTable[specialised])
                    ELSE Wrapping(arg, HeaderOfEntry, tdelims,
                                  StartTable[specialised])

C19_Witness ==
    /\ entry = "ToString"
    /\ made = {"default", "custom", "other"}
    /\ arg.t = Vector(Vector(Int_t))
    /\ Len(arg.c) = 2
    /\ result = <<"[", "[", "4", "2", "]", ",", " ", "[", "]", "]">>

\* The aggregate levels of a value: 0 for a scalar or text, else one more
\* than the deepest of its elements or components.
RECURSIVE AggLevels(_)
MaxOver(f, n) ==
    LET RECURSIVE M(_)
        M(k) == IF k = 0 THEN 0
                ELSE IF f[k] > M(k - 1) THEN f[k] ELSE M(k - 1)
    IN  M(n)
AggLevels(v) ==
    IF ~is_container(v.t) THEN 0
    ELSE 1 + MaxOver([k \in 1..Len(v.c) |-> AggLevels(v.c[k])], Len(v.c))

\* The activations of ToString on containers thread t has in progress.
Active(t) == Len(threads[t].stack)

\* C22: in every step of every thread, the activations in progress, with
\* one more for the scalar or text being converted, stay within the nesting
\* depth of the value; a step enters at most one activation, on the element
\* its caller has reached and with that caller still at this element, and
\* on return the caller moves past the element, so no element is entered
\* twice.
C22_DepthBounded ==
    [][\A t \in Threads :
          LET st  == threads[t].stack
              st2 == threads'[t].stack
          IN  /\ Active(t)' + 1 <= AggLevels(threads[t].x) + 1
              /\ threads[t].x = threads'[t].x
              /\ Active(t)' <= Active(t) + 1
              /\ Active(t)' = Active(t) + 1 /\ Active(t) >= 1 =>
                    /\ st2[Len(st2)].v = Top(st).v.c[Top(st).i + 1]
                    /\ st2[Len(st)].i = Top(st).i
                    /\ AggLevels(st2[Len(st2)].v) < AggLevels(Top(st).v)
              /\ Active(t)' = Active(t) - 1 /\ Active(t)' >= 1 =>
                    st2[Len(st2)].i = st[Len(st2)].i + 1
              /\ Active(t)' = Active(t) /\ Active(t) >= 1 /\ st2 # st =>
                    st2[Len(st2)].i = Top(st).i + 1]_vars

C22_Witness ==
    /\ threads[1].x.t = Vector(Vector(String_t))
    /\ threads[1].pc = "running"
    /\ Active(1) = 2
    /\ threads[1].stack[1].i = 1
    /\ Top(threads[1].stack).v.c = <<>>

\* A step that is a formatting call: control enters one of the entry
\* points and comes back with a status.
IsCall == entry = "none" /\ entry' # "none"

\* C23: a formatting call, whichever entry point and delimiter class it
\* uses and whether or not it compiles, leaves the formatted value (its
\* type, elements, order and count) and every row of the delimiter tables
\* as they were; what it produces is the returned sequence of characters.
C23_CallFrame ==
    [][IsCall => /\ arg' = arg
                 /\ values' = values
                 /\ specialised' = specialised]_vars

C23_Witness ==
    /\ Returned
    /\ entry = "helper"
    /\ tdelims = MyDelims
    /\ arg.t = Vector(Vector(Int_t))
    /\ Len(arg.c) = 2
    /\ Len(result) > 4

\* The type is an aggregate for the entry point of the last call: one the
\* library, not the standard inserter of text, formats.
IsAggregateHere(T) ==
    IF HeaderOfEntry = "printer.hpp" THEN is_container(T)
    ELSE UsesLibraryInserter(T)

\* An element of the formatted value as the claim has it: an aggregate is
\* wrapped and joined under the row its own type started with, whatever
\* class the call names; anything else is its own text.
UnderOwnDefault(e) ==
    IF IsAggregateHere(e.t)
    THEN LET row == StartTable[specialised][<<HeaderOfEntry, e.t>>]
         IN  row.prefix.s \o Joined(ElementTexts(e), row.delimiter.s)
                          \o row.postfix.s
    ELSE Format(e)

\* The formatted value has an element or component that is an aggregate.
HasAggregateElement(x) ==
    \E i \in 1..Len(x.c) : IsAggregateHere(x.c[i].t)

\* C25: a call naming a one-off delimiter class on an aggregate holding
\* aggregates wraps and joins only the outermost level with that class;
\* every nested aggregate is rendered with the default delimiters of its
\* own type.
C25_CustomOutermostOnly ==
    (ReturnedCustom /\ HasAggregateElement(arg)) =>
        result = FieldText(tdelims.prefix)
                   \o Joined([i \in 1..Len(arg.c) |-> UnderOwnDefault(arg.c[i])],
                             FieldText(tdelims.delimiter))
                   \o FieldText(tdelims.postfix)

C25_Witness ==
    /\ entry = "custom_delims"
    /\ status = "ok"
    /\ tdelims = MyDelims
    /\ arg.t = Tuple(<<CStr_t, Pair(String_t, Int_t), Int_t>>)
    /\ arg.c[2].c[2].n = 42
    /\ \E i \in 1..(Len(result) - 3) :
          SubSeq(result, i, i + 3) = <<"4", "2", ")", ";">>

\* A static type built only from int and nested list-like containers.
RECURSIVE IntBuilt(_)
IntBuilt(T) ==
    \/ T = Int_t
    \/ /\ T.k \in {"vector", "list", "deque", "array", "set", "multiset",
                    "unordered_set", "unordered_multiset"}
       /\ IntBuilt(T.a[1])

\* The values of each such type the program formats.
IntBuiltValues == [T \in {T \in Types : IntBuilt(T)} |-> ValuesOf(T, 0)]

\* C28: within one static type built only from int and nested list-like
\* containers, ToString gives two different values different strings: no
\* value of the type of x other than x has the string returned for x.
C28_Injective ==
    (entry = "ToString" /\ status = "ok" /\ IntBuilt(arg.t)) =>
        /\ arg \in IntBuiltValues[arg.t]
        /\ \A y \in IntBuiltValues[arg.t] : ToString(y) = result => y = arg

C28_Witness ==
    /\ entry = "ToString"
    /\ status = "ok"
    /\ arg.t = Vector(Vector(Int_t))
    /\ Len(arg.c) = 2
    /\ Len(arg.c[1].c) = 1
    /\ Len(arg.c[2].c) = 1
    /\ \E y \in IntBuiltValues[arg.t] :
          /\ Len(y.c) = 1
          /\ y.c[1].c = arg.c[1].c \o arg.c[2].c
          /\ ToString(y) # result

\* The value of is_container<T> in the header of the last call.
Classified(T) ==
    IF HeaderOfEntry = "printer.hpp" THEN is_container(T) ELSE is_container_os(T)

\* T exposes all three of a nested const_iterator, a const begin() and a
\* const end() returning it: the range templates of the standard library,
\* array_wrapper_n, and the one class of the caller that declares all three.
ExposesAllThree(T) ==
    \/ T.k \in {"string", "vector", "list", "deque", "set", "multiset",
                "unordered_set", "unordered_multiset", "map", "array_wrapper_n"}
    \/ T.k = "class+const_iterator+begin+end"

\* The types the explicit rules name.
AlwaysAggregate(T) ==
    T.k \in {"valarray", "pair", "tuple"} \/ (T.k = "array" /\ T.a[1] # Char_t)
NeverAggregate(T) == T.k = "array" /\ T.a[1] = Char_t

\* What the claim says the classification of T is.
ExpectedAggregate(T) ==
    \/ AlwaysAggregate(T)
    \/ /\ ~NeverAggregate(T)
       /\ ExposesAllThree(T)
       /\ HeaderOfEntry = "printer.hpp" => T \notin TextTypes

\* The last call compiled and formatted x as an aggregate: its elements or
\* components joined and wrapped under the delimiters of its type.
FormattedAsAggregate ==
    /\ status = "ok"
    /\ result = FieldText(tdelims.prefix)
                   \o Joined(ElementTexts(arg), FieldText(tdelims.delimiter))
                   \o FieldText(tdelims.postfix)

\* C24: in a default call, the type of x is classified as an aggregate
\* exactly when an explicit rule makes it one (T[N] other than char[N],
\* valarray, pair, tuple) or, no rule applying, when it exposes all three of
\* const_iterator, const begin() and const end() (and, in ToString, is not
\* string-like); a class missing any of the three is not classified, and
\* the call formats x as an aggregate exactly for the classified types
\* (std::string under the stream inserter excepted, which the inserter of
\* the standard library takes).
C24_DetectionExact ==
    entry \in {"ToString", "stream"} =>
        /\ Classified(arg.t) <=> ExpectedAggregate(arg.t)
        /\ FormattedAsAggregate <=>
              (ExpectedAggregate(arg.t) /\ arg.t # String_t)
        /\ (arg.t.k \in ClassKinds /\ ~ExposesAllThree(arg.t)) =>
              status = "ill_formed"

C24_Witness ==
    /\ entry = "stream"
    /\ arg.t = Class("class+const_iterator+begin")
    /\ ~is_container_os(arg.t)
    /\ status = "ill_formed"

\* The emissions of a container body as the claim has them: the prefix if
\* there is one, then the elements in order, the separator if there is one
\* between consecutive elements, then the suffix if there is one.
Emissions(x, D, text(_)) ==
    FieldText(D.prefix)
        \o Joined([i \in 1..Len(x.c) |-> text(x.c[i])], FieldText(D.delimiter))
        \o FieldText(D.postfix)

\* A type the three headers all traverse from begin() to end().
TraversedByAll(T) ==
    /\ is_container(T) /\ UsesLibraryInserter(T) /\ UsesLibraryInserter_98(T)
    /\ T.k \notin {"pair", "tuple"}
    /\ WellFormed(T)

\* A call of one of the three helpers has returned.
ReturnedHelper ==
    status = "ok" /\ entry \in {"helper", "stream_helper", "stream_helper98"}

\* C29: for a container of any length and any delimiter class, a null
\* separator included, the loop of printer.hpp, the loop of prettyprint.hpp
\* and the loop of prettyprint98.hpp emit the same sequence: prefix, first
\* element, then separator and element alternately, suffix; each differs
\* only in the inserter it hands an element to, and on elements that are
\* numbers the three outputs are equal.
C29_LoopsEquivalent ==
    (ReturnedHelper /\ TraversedByAll(arg.t)) =>
        /\ print_container_helper(arg, tdelims) = Emissions(arg, tdelims, ToString)
        /\ print_container_helper_os(arg, tdelims)
              = Emissions(arg, tdelims, operator_shl)
        /\ print_container_helper_98(arg, tdelims)
              = Emissions(arg, tdelims, operator_shl_98)
        /\ ElementTypes(arg.t) \subseteq {Int_t, Bool_t} =>
              /\ result = print_container_helper(arg, tdelims)
              /\ result = print_container_helper_os(arg, tdelims)
              /\ result = print_container_helper_98(arg, tdelims)

C29_Witness ==
    /\ entry = "stream_helper98"
    /\ status = "ok"
    /\ tdelims = NullSepDelims
    /\ arg.t = Vector(Int_t)
    /\ Len(arg.c) = 3
    /\ result = print_container_helper(arg, NullSepDelims)
    /\ Len(result) = 2 + TotalLen([i \in 1..3 |-> to_string(arg.c[i])])

\* The custom_delims objects alive that hold wrapper c.
Owners(c) == {i \in 1..Len(objs) : objs[i].base = c}

\* C26: every custom_delims_wrapper allocated by a custom_delims object is
\* deleted at most once, and exactly once when no custom_delims object
\* holding it is left, whatever the caller constructs, copies, moves and
\* destroys.
C26_ReleasedOnce ==
    \A c \in 1..Len(heap) :
        /\ heap[c].deletes <= 1
        /\ Owners(c) = {} => heap[c].deletes = 1

\* A native list holding p[0], ..., p[n - 1] for the wrapper o.
ListOfWindow(o) ==
    Val(List(Int_t), 0, <<>>, [k \in 1..o.n |-> arg.c[o.off + k]])

\* C21: ToString(pretty_print_array(p, n)) is the text of a native list
\* holding p[0], ..., p[n - 1]: the loop visits exactly the positions p + 0
\* to p + n - 1 in order, none at n or beyond, and the text is [] for n = 0.
C21_ArrayWindow ==
    (entry = "array_wrapper_n" /\ status = "ok") =>
        \E i \in 1..Len(objs) :
            LET o == objs[i]
            IN  /\ result = ToString(ListOfWindow(o))
                /\ array_wrapper_n_visits(array_wrapper_n_begin(o),
                                          array_wrapper_n_end(o))
                      = [k \in 1..o.n |-> o.off + k - 1]
                /\ o.n = 0 => result = <<"[", "]">>
                /\ Len(objs) = 1 =>
                      Len(result) = 2 + TotalLen([k \in 1..o.n |->
                                                    to_string(arg.c[o.off + k])])
                                      + (IF o.n = 0 THEN 0 ELSE 2 * (o.n - 1))

C21_Witness ==
    /\ entry = "array_wrapper_n"
    /\ status = "ok"
    /\ Len(objs) = 1
    /\ objs[1].off = 1
    /\ objs[1].n = 2
    /\ result = <<"[", "4", ",", " ", "9", "]">>

\* The contents x had when the wrapper o was built (x grows at its end).
WrappedAt(o) == [arg EXCEPT !.c = SubSeq(arg.c, 1, o.n0)]

\* The text of x under the formatter of a wrapper class.
RenderBy(kind, x, D) ==
    IF kind = "print_container_helper" THEN print_container_helper(x, D)
    ELSE IF kind = "custom_delims98" THEN print_container_helper_98(x, D)
    ELSE print_container_helper_os(x, D)

\* C27: a print_container_helper or custom_delims built on x and used
\* after x has changed gives the text of x as it is when the wrapper is
\* used, not as it was when the wrapper was built.
C27_ByReference ==
    (entry \in RefKinds /\ status = "ok") =>
        /\ result = RenderBy(entry, arg, tdelims)
        /\ \A i \in 1..Len(objs) :
              objs[i].n0 # Len(arg.c) =>
                  result # RenderBy(entry, WrappedAt(objs[i]), tdelims)

C27_Witness ==
    /\ entry = "custom_delims11"
    /\ status = "ok"
    /\ Len(objs) = 1
    /\ objs[1].n0 = 0
    /\ Len(arg.c) = 2
    /\ result = <<"<", "4", "2", ";", " ", "4", "2", ">">>

====
